---- MODULE Spec2Model ----
(***************************************************************************)
(* Hash-chain ledger engine of the patent registry (src/main.py): Block,   *)
(* Blockchain, the authenticity scorer, the submit handler that drives     *)
(* them, the Ledger statistics and the runs of the script that browse and  *)
(* export.  Strings are TLA+ strings; a dict is the sequence of its        *)
(* <<key, value>> pairs in insertion order; a value is tagged with its     *)
(* Python type so that json.dumps can render it.                           *)
(***************************************************************************)
EXTENDS Integers, Sequences, FiniteSets, TLC

(* ------------------------------------------------------------------ *)
(* Text                                                                 *)
(* ------------------------------------------------------------------ *)

\* The characters that occur in the modelled texts, in ASCII order; the single
\* quote, which occurs only in the text str(dict) that is hashed and never in
\* a text that is compared, comes last.
Alphabet == " \",-0123456789:ABCDEFGHIJKLMNOPQRSTUVWXYZ_abcdefghijklmnopqrstuvwxyz{}'"

CharAt(s, i) == SubSeq(s, i, i)

Chars == {CharAt(Alphabet, i) : i \in 1..Len(Alphabet)}

\* ord(c), up to a renumbering of the alphabet that preserves the order of the
\* characters of compared texts.
Ord == [c \in Chars |-> CHOOSE i \in 1..Len(Alphabet) : CharAt(Alphabet, i) = c]

\* s[:n] of Python: the first n characters, the whole string when n > len(s).
Prefix(s, n) == SubSeq(s, 1, IF n < Len(s) THEN n ELSE Len(s))

\* "0" * n
RECURSIVE Zeros(_)
Zeros(n) == IF n <= 0 THEN "" ELSE "0" \o Zeros(n - 1)

\* str(n) for an int n >= 0
RECURSIVE str(_)
str(n) == IF n < 10 THEN CharAt("0123456789", n + 1)
          ELSE str(n \div 10) \o CharAt("0123456789", (n % 10) + 1)

\* a < b in Python's string order, deciding from character i on
RECURSIVE StrLessFrom(_, _, _)
StrLessFrom(a, b, i) ==
    IF i > Len(a) THEN i <= Len(b)
    ELSE IF i > Len(b) THEN FALSE
    ELSE IF CharAt(a, i) = CharAt(b, i) THEN StrLessFrom(a, b, i + 1)
    ELSE Ord[CharAt(a, i)] < Ord[CharAt(b, i)]

StrLess(a, b) == StrLessFrom(a, b, 1)

(* ------------------------------------------------------------------ *)
(* SHA-256, scaled down                                                 *)
(* ------------------------------------------------------------------ *)

\* Number of hex characters of a digest (64 in hashlib; 4 here).
HashLen == 4

HashSpace == 16 * 16 * 16 * 16

MixPrime == 46337
MixBase == 131
MixScale == 25173
MixShift == 13849

\* Polynomial digest of s[lo..hi], computed by halving: <<value, MixBase^length>>.
RECURSIVE Poly(_, _, _)
Poly(s, lo, hi) ==
    IF lo > hi THEN <<0, 1>>
    ELSE IF lo = hi THEN <<Ord[CharAt(s, lo)], MixBase>>
    ELSE LET mid == (lo + hi) \div 2
             l == Poly(s, lo, mid)
             r == Poly(s, mid + 1, hi)
         IN  <<(l[1] * r[2] + r[1]) % MixPrime, (l[2] * r[2]) % MixPrime>>

\* n as w lowercase hex characters
RECURSIVE Hex(_, _)
Hex(n, w) == IF w = 0 THEN ""
             ELSE Hex(n \div 16, w - 1) \o CharAt("0123456789abcdef", (n % 16) + 1)

\* hashlib.sha256(s.encode()).hexdigest(): a fixed-width lowercase hex string
\* that is a deterministic function of every character of s.
sha256_hexdigest(s) ==
    Hex((Poly(s, 1, Len(s))[1] * MixScale + MixShift) % HashSpace, HashLen)

(* ------------------------------------------------------------------ *)
(* dict and json.dumps(..., sort_keys=True)                             *)
(* ------------------------------------------------------------------ *)

StrV(s) == [t |-> "str", v |-> s]
IntV(n) == [t |-> "int", v |-> n]
BoolV(b) == [t |-> "bool", v |-> b]
NoneV == [t |-> "None", v |-> 0]

Keys(dict) == {dict[i][1] : i \in 1..Len(dict)}

\* dict.get(key, default)
Get(dict, key, default) ==
    IF key \in Keys(dict)
    THEN dict[CHOOSE i \in 1..Len(dict) : dict[i][1] = key][2]
    ELSE default

\* bool(value), the truth value Python gives a value
Truthy(val) ==
    CASE val.t = "str" -> Len(val.v) > 0
      [] val.t = "int" -> val.v # 0
      [] val.t = "bool" -> val.v
      [] OTHER -> FALSE

\* item put at its place in a sequence of pairs already in key order
InsertItem(sorted, item) ==
    LET p == Cardinality({j \in 1..Len(sorted) : StrLess(sorted[j][1], item[1])})
    IN  SubSeq(sorted, 1, p) \o <<item>> \o SubSeq(sorted, p + 1, Len(sorted))

\* The first n pairs of a dict in increasing key order.
RECURSIVE SortFirst(_, _)
SortFirst(dict, n) ==
    IF n = 0 THEN <<>> ELSE InsertItem(SortFirst(dict, n - 1), dict[n])

\* The pairs of a dict in increasing key order.
SortItems(dict) == SortFirst(dict, Len(dict))

JsonValue(val) ==
    CASE val.t = "str" -> "\"" \o val.v \o "\""
      [] val.t = "int" -> str(val.v)
      [] val.t = "bool" -> (IF val.v THEN "true" ELSE "false")
      [] OTHER -> "null"

RECURSIVE JsonItems(_)
JsonItems(items) ==
    IF Len(items) = 0 THEN ""
    ELSE "\"" \o items[1][1] \o "\": " \o JsonValue(items[1][2])
         \o (IF Len(items) > 1 THEN ", " ELSE "")
         \o JsonItems(Tail(items))

\* json.dumps(dict) in insertion order (a serialization that does not sort)
json_dumps_unsorted(dict) == "{" \o JsonItems(dict) \o "}"

\* json.dumps(dict, sort_keys=True)
json_dumps(dict) == "{" \o JsonItems(SortItems(dict)) \o "}"

(* ------------------------------------------------------------------ *)
(* Block                                                                *)
(* ------------------------------------------------------------------ *)

\* Block.calculate_hash, block_string: the five texts one after the other
block_string(b) ==
    str(b.index) \o b.timestamp \o json_dumps(b.data) \o b.previous_hash \o str(b.nonce)

\* Block.calculate_hash over the block's current fields
calculate_hash(b) == sha256_hexdigest(block_string(b))

\* A digest that also covers the nonce.
calculate_merkle_root_sealed(b) ==
    sha256_hexdigest(json_dumps(b.data) \o str(b.nonce))

\* Block.calculate_merkle_root
calculate_merkle_root(b) == sha256_hexdigest(json_dumps(b.data))

\* Block.__init__
Block(index, timestamp, data, previous_hash, nonce) ==
    LET fields == [index |-> index, timestamp |-> timestamp, data |-> data,
                   previous_hash |-> previous_hash, nonce |-> nonce]
    IN  [index |-> index, timestamp |-> timestamp, data |-> data,
         previous_hash |-> previous_hash, nonce |-> nonce,
         hash |-> calculate_hash(fields),
         merkle_root |-> calculate_merkle_root(fields)]

\* The loop condition comparing one character too few.
NeedsWork_short(b, difficulty) ==
    Prefix(b.hash, difficulty - 1) # Zeros(difficulty - 1)

\* Block.mine_block, loop condition: self.hash[:difficulty] != target
NeedsWork(b, difficulty) == Prefix(b.hash, difficulty) # Zeros(difficulty)

\* A loop body that advances the nonce by two.
NextNonce_by_two(b) ==
    LET bumped == [b EXCEPT !.nonce = b.nonce + 2]
    IN  [bumped EXCEPT !.hash = calculate_hash(bumped)]

\* Block.mine_block, loop body: self.nonce += 1; self.hash = self.calculate_hash()
NextNonce(b) ==
    LET bumped == [b EXCEPT !.nonce = b.nonce + 1]
    IN  [bumped EXCEPT !.hash = calculate_hash(bumped)]

\* No Block object.
NoBlock == [index |-> -1, timestamp |-> "", data |-> <<>>, previous_hash |-> "",
            nonce |-> 0, hash |-> "", merkle_root |-> ""]

(* ------------------------------------------------------------------ *)
(* Blockchain                                                           *)
(* ------------------------------------------------------------------ *)

\* The value Blockchain.__init__ assigns to self.difficulty.
DefaultDifficulty == 2

\* self.difficulty is not bound: reading it raises AttributeError.
Unbound == -1

GenesisData ==
    << <<"title", StrV("Genesis Block")>>,
       <<"description", StrV("First block in the patent blockchain")>>,
       <<"doc_hash", StrV("")>>,
       <<"patent_type", StrV("Genesis")>>,
       <<"is_on_blockchain", BoolV(TRUE)>>,
       <<"patent_id", StrV("GENESIS-000")>>,
       <<"inventor", StrV("System")>>,
       <<"status", StrV("Active")>>,
       <<"priority", StrV("Normal")>> >>

\* A genesis block numbered 1.
create_genesis_block_one(now) == Block(1, str(now), GenesisData, "0", 0)

\* Blockchain.create_genesis_block up to its mine_block call
create_genesis_block(now) == Block(0, str(now), GenesisData, "0", 0)

\* get_latest_block returning the first block of the list.
get_latest_block_first(ch) == ch[1]

\* Blockchain.get_latest_block
get_latest_block(ch) == ch[Len(ch)]

\* add_block without its first statement.
Relink_skipped(new_block, ch) == new_block

\* Blockchain.add_block, first statement: the candidate is relinked
Relink(new_block, ch) == [new_block EXCEPT !.previous_hash = get_latest_block(ch).hash]

\* The block inserted at the head of the list instead of appended.
Push_front(ch, new_block) == <<new_block>> \o ch

\* Blockchain.add_block, last statement: self.chain.append(new_block)
Push(ch, new_block) == Append(ch, new_block)

\* A validation that also re-checks the proof of work of every block, at
\* the difficulty above the one the Ledger is constructed with.
is_chain_valid_resealed(ch) ==
    \A i \in 1..(Len(ch) - 1) :
        /\ ch[i + 1].hash = calculate_hash(ch[i + 1])
        /\ ch[i + 1].previous_hash = ch[i].hash
        /\ ~NeedsWork(ch[i + 1], DefaultDifficulty + 1)

\* A validation that also compares the genesis block's stored hash with
\* the hash of its fields.
is_chain_valid_from_genesis(ch) ==
    /\ Len(ch) > 0 => ch[1].hash = calculate_hash(ch[1])
    /\ \A i \in 1..(Len(ch) - 1) :
        /\ ch[i + 1].hash = calculate_hash(ch[i + 1])
        /\ ch[i + 1].previous_hash = ch[i].hash

\* A validation that compares each stored hash with the hash of the fields
\* and never looks at previous_hash.
is_chain_valid_unlinked(ch) ==
    \A i \in 1..(Len(ch) - 1) : ch[i + 1].hash = calculate_hash(ch[i + 1])

\* Blockchain.is_chain_valid; chain[i] of Python is ch[i + 1]
is_chain_valid(ch) ==
    \A i \in 1..(Len(ch) - 1) :
        /\ ch[i + 1].hash = calculate_hash(ch[i + 1])
        /\ ch[i + 1].previous_hash = ch[i].hash

(* ------------------------------------------------------------------ *)
(* Authenticity scorer                                                  *)
(* ------------------------------------------------------------------ *)

\* A random factor drawn from a wider range, -10..15.
RandomAdjustments_wide == (0 - 10)..15

\* random.randint(-5, 15) returns one of these
RandomAdjustments == (0 - 5)..15

Min(a, b) == IF a < b THEN a ELSE b
Max(a, b) == IF a > b THEN a ELSE b

\* The scorer returning the sum without clamping it.
verify_unclamped(patent_data, r) ==
    50 + (IF Len(Get(patent_data, "title", StrV("")).v) > 10 THEN 10 ELSE 0)
       + (IF Len(Get(patent_data, "description", StrV("")).v) > 50 THEN 15 ELSE 0)
       + (IF Truthy(Get(patent_data, "doc_hash", NoneV)) THEN 20 ELSE 0)
       + r

\* The scorer with thresholds that include the bound (>= instead of >).
verify_inclusive(patent_data, r) ==
    Min(100, Max(0,
        50 + (IF Len(Get(patent_data, "title", StrV("")).v) >= 10 THEN 10 ELSE 0)
           + (IF Len(Get(patent_data, "description", StrV("")).v) >= 50 THEN 15 ELSE 0)
           + (IF Truthy(Get(patent_data, "doc_hash", NoneV)) THEN 20 ELSE 0)
           + r))

\* verify_patent_authenticity, with r the value random.randint returned
verify_patent_authenticity(patent_data, r) ==
    LET s0 == 50
        s1 == IF Len(Get(patent_data, "title", StrV("")).v) > 10 THEN s0 + 10 ELSE s0
        s2 == IF Len(Get(patent_data, "description", StrV("")).v) > 50 THEN s1 + 15 ELSE s1
        s3 == IF Truthy(Get(patent_data, "doc_hash", NoneV)) THEN s2 + 20 ELSE s2
        s4 == s3 + r
    IN  Min(100, Max(0, s4))

\* hash_file_bytes
hash_file_bytes(file_bytes) == sha256_hexdigest(file_bytes)

(* ------------------------------------------------------------------ *)
(* State                                                                *)
(* ------------------------------------------------------------------ *)

VARIABLES
    pc,                \* where the session is: "start" (no toy_chain yet),
                       \* "mine_block" (inside the mining loop), "idle" (session
                       \* initialised, waiting for an event), "AttributeError",
                       \* "returned" (a mine_block call on a free Block returned)
    frame,             \* the caller of the running mine_block
    chain,             \* toy_chain.chain
    difficulty,        \* toy_chain.difficulty, or Unbound
    cand,              \* the Block being built: genesis_block / new_block
    target_len,        \* mine_block's difficulty argument
    clock,             \* datetime.datetime.now(), in seconds
    off_chain_list,    \* st.session_state.off_chain_list
    counts_on_chain,   \* st.session_state.counts_on_chain
    counts_off_chain,  \* st.session_state.counts_off_chain
    patents_submitted, \* st.session_state.current_user.patents_submitted
    ui,                \* the message the last handler run showed
    tampered,          \* position of the block edited behind the Ledger's back, or -1
    verification,      \* the last direct call of verify_patent_authenticity
    view,              \* what the last read operation (statistics, browse,
                       \* export) returned, until the next operation begins
    threads            \* for each thread that calls add_block beside the
                       \* session's own: where it is and its new_block

vars == <<pc, frame, chain, difficulty, cand, target_len, clock, off_chain_list,
          counts_on_chain, counts_off_chain, patents_submitted, ui, tampered,
          verification, view, threads>>

ledgerVars == <<chain, difficulty, off_chain_list, counts_on_chain,
                counts_off_chain, patents_submitted>>

(* ------------------------------------------------------------------ *)
(* Bounds and inputs                                                    *)
(* ------------------------------------------------------------------ *)

\* Accepted submissions per session.
MaxSubmitted == 3

\* Mining iterations explored per block.
MaxNonce == 3000

\* Largest difficulty passed to mine_block on a free Block.
MaxDifficulty == 2

StartTime == 114

\* Seconds between two events of the session.
Delays == {8}

\* time.sleep(2) in the on-chain branch
SleepSeconds == 2

PatentTypes == {"Utility Patent", "Design Patent"}

Titles == {"", "X"}
Inventors == {"", "demo_user"}
Descriptions == {"", "Valve"}
StoreOptions == {"On Blockchain", "Off Blockchain"}

\* uploaded_file: None, or the bytes and name of the upload
NoFile == [name |-> "", bytes |-> "", present |-> FALSE]
Files == {NoFile}

\* generate_patent_id()
PatentIds == {"PAT-0AB70C93"}

\* Values random.randint takes inside the submit handler.
SubmitAdjustments == {5}

(* ------------------------------------------------------------------ *)
(* Initial state                                                        *)
(* ------------------------------------------------------------------ *)

NoVerification == [called |-> FALSE, patent_data |-> <<>>, r |-> 0, score |-> 0]

\* No read operation has run since the last operation that writes.
NoView == [op |-> "none"]

\* The threads that share the Ledger with each other.
Threads == {1, 2}

\* A thread that has not called add_block.
NoCall == [at |-> "none", new_block |-> NoBlock, read_at |-> 0]

\* A new session.  The Blockchain class defines no difficulty attribute, so
\* the object __init__ receives has none; the methods are also explored on
\* an object that already resolves difficulty (to the value __init__ assigns)
\* when __init__ starts.
Init ==
    /\ pc = "start"
    /\ frame = "none"
    /\ chain = <<>>
    /\ difficulty \in {Unbound, DefaultDifficulty}
    /\ cand = NoBlock
    /\ target_len = 0
    /\ clock = StartTime
    /\ off_chain_list = <<>>
    /\ counts_on_chain = [t \in PatentTypes |-> 0]
    /\ counts_off_chain = [t \in PatentTypes |-> 0]
    /\ patents_submitted = 0
    /\ ui = "none"
    /\ tampered = -1
    /\ verification = NoVerification
    /\ view = NoView
    /\ threads = [t \in Threads |-> NoCall]

(* ------------------------------------------------------------------ *)
(* Blockchain construction and mining                                   *)
(* ------------------------------------------------------------------ *)

\* initialize_session_state -> Blockchain.__init__ -> create_genesis_block, up
\* to the call genesis_block.mine_block(self.difficulty)
Blockchain_init ==
    /\ pc = "start"
    /\ cand' = create_genesis_block(clock)
    /\ IF difficulty = Unbound
       THEN /\ pc' = "AttributeError"
            /\ UNCHANGED <<frame, target_len>>
       ELSE /\ pc' = "mine_block"
            /\ frame' = "create_genesis_block"
            /\ target_len' = difficulty
    /\ UNCHANGED <<ledgerVars, clock, ui, tampered, verification, threads, view>>

\* A loop that gives up after five iterations.
mine_block_capped ==
    /\ pc = "mine_block"
    /\ NeedsWork(cand, target_len)
    /\ cand.nonce < MaxNonce
    /\ IF cand.nonce < 5
       THEN cand' = NextNonce(cand) /\ pc' = pc
       ELSE cand' = cand /\ pc' = "MiningTimeout"
    /\ UNCHANGED <<frame, ledgerVars, target_len, clock, ui, tampered, verification, threads, view>>

\* One iteration of the loop of Block.mine_block
mine_block ==
    /\ pc = "mine_block"
    /\ NeedsWork(cand, target_len)
    /\ cand.nonce < MaxNonce
    /\ cand' = NextNonce(cand)
    /\ UNCHANGED <<pc, frame, ledgerVars, target_len, clock, ui, tampered, verification, threads, view>>

\* mine_block returns to create_genesis_block, which returns to __init__:
\* self.chain = [genesis]; self.difficulty = 2
create_genesis_block_return ==
    /\ pc = "mine_block"
    /\ frame = "create_genesis_block"
    /\ ~NeedsWork(cand, target_len)
    /\ chain' = <<cand>>
    /\ difficulty' = DefaultDifficulty
    /\ pc' = "idle"
    /\ frame' = "none"
    /\ UNCHANGED <<cand, target_len, clock, off_chain_list, counts_on_chain,
                   counts_off_chain, patents_submitted, ui, tampered, verification, threads, view>>

(* ------------------------------------------------------------------ *)
(* Submit handler                                                       *)
(* ------------------------------------------------------------------ *)

\* str.strip(), for texts whose only whitespace is the space
RECURSIVE Strip(_)
Strip(s) ==
    IF Len(s) = 0 THEN s
    ELSE IF CharAt(s, 1) = " " THEN Strip(SubSeq(s, 2, Len(s)))
    ELSE IF CharAt(s, Len(s)) = " " THEN Strip(SubSeq(s, 1, Len(s) - 1))
    ELSE s

\* doc_hash as the handler computes it
DocHash(uploaded_file, patent_description) ==
    IF uploaded_file.present THEN hash_file_bytes(uploaded_file.bytes)
    ELSE IF Len(Strip(patent_description)) > 0 THEN sha256_hexdigest(patent_description)
    ELSE ""

\* patent_data as the handler builds it.  The entries that the form fills
\* with the same value in every submission of the model (priority,
\* estimated_value, keywords, related_patents, collaboration, funding_source,
\* created_by) are left out of the payload.
PatentData(patent_id, patent_title, patent_description, inventor_name, patent_type, store_option, uploaded_file, r) ==
    LET doc_hash == DocHash(uploaded_file, patent_description)
    IN  << <<"patent_id", StrV(patent_id)>>,
           <<"title", StrV(patent_title)>>,
           <<"description", StrV(patent_description)>>,
           <<"inventor", StrV(inventor_name)>>,
           <<"patent_type", StrV(patent_type)>>,
           <<"doc_hash", StrV(doc_hash)>>,
           <<"is_on_blockchain", BoolV(store_option = "On Blockchain")>>,
           <<"status", StrV("Pending")>>,
           <<"verification_score",
             IntV(verify_patent_authenticity(
                    << <<"title", StrV(patent_title)>>,
                       <<"description", StrV(patent_description)>>,
                       <<"doc_hash", StrV(doc_hash)>> >>, r))>>,
           <<"file_name", IF uploaded_file.present THEN StrV(uploaded_file.name) ELSE NoneV>>,
           <<"file_size", IntV(Len(uploaded_file.bytes))>> >>

\* The form is submitted.  A missing required field shows an error; an
\* on-chain submission builds the Block and enters add_block (relink, then
\* mine); an off-chain submission is appended to off_chain_list.
submit ==
    /\ pc = "idle"
    /\ \E patent_title \in Titles, inventor_name \in Inventors,
          patent_description \in Descriptions, patent_type \in PatentTypes,
          store_option \in StoreOptions, uploaded_file \in Files,
          patent_id \in PatentIds, r \in SubmitAdjustments, dt \in Delays :
        IF Len(patent_title) = 0 \/ Len(inventor_name) = 0 \/ Len(patent_description) = 0
        THEN /\ ui' = "Please fill in all required fields marked with *"
             /\ UNCHANGED <<pc, frame, ledgerVars, cand, target_len, clock>>
        ELSE LET patent_data == PatentData(patent_id, patent_title, patent_description,
                                           inventor_name, patent_type, store_option,
                                           uploaded_file, r)
                 now == clock + dt
             IN  /\ patents_submitted < MaxSubmitted
                 /\ IF store_option = "On Blockchain"
                    THEN /\ cand' = Relink(Block(Len(chain), str(now), patent_data, "", 0), chain)
                         /\ target_len' = difficulty
                         /\ pc' = "mine_block"
                         /\ frame' = "add_block"
                         /\ clock' = now + SleepSeconds
                         /\ UNCHANGED <<ledgerVars, ui>>
                    ELSE /\ off_chain_list' = Append(off_chain_list,
                                 [timestamp |-> str(now), data |-> patent_data])
                         /\ counts_off_chain' =
                                [counts_off_chain EXCEPT ![patent_type] = @ + 1]
                         /\ patents_submitted' = patents_submitted + 1
                         /\ ui' = "stored off-chain"
                         /\ clock' = now
                         /\ UNCHANGED <<pc, frame, chain, difficulty, cand, target_len,
                                        counts_on_chain>>
    /\ view' = NoView
    /\ UNCHANGED <<tampered, verification, threads>>

\* The handler appending the block without counting it under its type.
add_block_return_uncounted ==
    /\ pc = "mine_block"
    /\ frame = "add_block"
    /\ ~NeedsWork(cand, target_len)
    /\ chain' = Push(chain, cand)
    /\ patents_submitted' = patents_submitted + 1
    /\ ui' = "recorded on the blockchain"
    /\ pc' = "idle"
    /\ frame' = "none"
    /\ UNCHANGED <<difficulty, cand, target_len, clock, off_chain_list, counts_on_chain,
                   counts_off_chain, tampered, verification, threads, view>>

\* The handler also filing the on-chain record in off_chain_list.
add_block_return_mirrored ==
    /\ pc = "mine_block"
    /\ frame = "add_block"
    /\ ~NeedsWork(cand, target_len)
    /\ chain' = Push(chain, cand)
    /\ off_chain_list' = Append(off_chain_list,
                                [timestamp |-> cand.timestamp, data |-> cand.data])
    /\ counts_on_chain' =
           [counts_on_chain EXCEPT ![Get(cand.data, "patent_type", NoneV).v] = @ + 1]
    /\ patents_submitted' = patents_submitted + 1
    /\ ui' = "recorded on the blockchain"
    /\ pc' = "idle"
    /\ frame' = "none"
    /\ UNCHANGED <<difficulty, cand, target_len, clock, counts_off_chain, tampered,
                   verification, threads, view>>

\* mine_block returns to add_block, which appends the block and returns to
\* the handler, which counts the submission
add_block_return ==
    /\ pc = "mine_block"
    /\ frame = "add_block"
    /\ ~NeedsWork(cand, target_len)
    /\ chain' = Push(chain, cand)
    /\ counts_on_chain' =
           [counts_on_chain EXCEPT ![Get(cand.data, "patent_type", NoneV).v] = @ + 1]
    /\ patents_submitted' = patents_submitted + 1
    /\ ui' = "recorded on the blockchain"
    /\ pc' = "idle"
    /\ frame' = "none"
    /\ UNCHANGED <<difficulty, cand, target_len, clock, off_chain_list,
                   counts_off_chain, tampered, verification, threads, view>>

Next ==
    \/ Blockchain_init
    \/ mine_block
    \/ create_genesis_block_return
    \/ submit
    \/ add_block_return

Spec == Init /\ [][Next]_vars

(* ------------------------------------------------------------------ *)
(* Block on its own: any fields, any difficulty                         *)
(* ------------------------------------------------------------------ *)

BlockIndexes == {1, 12}
BlockTimestamps == {"5"}
BlockPreviousHashes == {"", "0"}
BlockNonces == {0, 3}

\* Two insertion orders of one dict, and another dict.
BlockDatas ==
    { << <<"title", StrV("X")>>, <<"doc_hash", StrV("")>> >>,
      << <<"doc_hash", StrV("")>>, <<"title", StrV("X")>> >>,
      << <<"title", StrV("Y")>> >> }

\* Block(index, timestamp, data, previous_hash, nonce)
new_Block ==
    /\ pc \in {"start", "built", "returned"}
    /\ \E index \in BlockIndexes, timestamp \in BlockTimestamps, data \in BlockDatas,
          previous_hash \in BlockPreviousHashes, nonce \in BlockNonces :
        cand' = Block(index, timestamp, data, previous_hash, nonce)
    /\ pc' = "built"
    /\ UNCHANGED <<frame, ledgerVars, target_len, clock, ui, tampered, verification, threads, view>>

\* block.mine_block(d) is called
call_mine_block ==
    /\ pc = "built"
    /\ \E d \in 0..MaxDifficulty : target_len' = d
    /\ pc' = "mine_block"
    /\ frame' = "caller"
    /\ UNCHANGED <<ledgerVars, cand, clock, ui, tampered, verification, threads, view>>

\* mine_block returns to the caller of the free Block
mine_block_return ==
    /\ pc = "mine_block"
    /\ frame = "caller"
    /\ ~NeedsWork(cand, target_len)
    /\ pc' = "returned"
    /\ frame' = "none"
    /\ UNCHANGED <<ledgerVars, cand, target_len, clock, ui, tampered, verification, threads, view>>

BlockNext ==
    \/ new_Block
    \/ call_mine_block
    \/ mine_block
    \/ mine_block_return

BlockSpec == Init /\ [][BlockNext]_vars

(* ------------------------------------------------------------------ *)
(* Block on its own, its stored hash no longer the hash of its fields   *)
(* ------------------------------------------------------------------ *)

\* The hashes a free Block is linked to.
LinkedHashes == {"", "00ab"}

\* new_block.previous_hash = h on a Block that was built or mined, as the
\* first statement of add_block does: the stored hash stays as it is
assign_previous_hash ==
    /\ pc \in {"built", "returned"}
    /\ \E h \in LinkedHashes \ {cand.previous_hash} :
        cand' = [cand EXCEPT !.previous_hash = h]
    /\ pc' = "built"
    /\ UNCHANGED <<frame, ledgerVars, target_len, clock, ui, tampered, verification, threads, view>>

RelinkedNext ==
    \/ BlockNext
    \/ assign_previous_hash

RelinkedSpec == Init /\ [][RelinkedNext]_vars

(* ------------------------------------------------------------------ *)
(* The scorer on its own: any record, any random adjustment             *)
(* ------------------------------------------------------------------ *)

RECURSIVE Repeat(_, _)
Repeat(s, n) == IF n = 0 THEN "" ELSE s \o Repeat(s, n - 1)

ScoreTitles == {"", Repeat("T", 10), Repeat("T", 11)}
ScoreDescriptions == {"", Repeat("d", 50), Repeat("d", 51), Repeat("d", 60)}
ScoreDocHashes == {"", "ab12"}

\* A key that is missing, or present with one of the values.
Optional(key, values) == {<<>>} \cup {<< <<key, StrV(val)>> >> : val \in values}

ScoreRecords ==
    {t \o ds \o dh : t \in Optional("title", ScoreTitles),
                     ds \in Optional("description", ScoreDescriptions),
                     dh \in Optional("doc_hash", ScoreDocHashes)}

\* verify_patent_authenticity(patent_data) is called
verify ==
    /\ pc = "start"
    /\ \E patent_data \in ScoreRecords, r \in RandomAdjustments :
        verification' = [called |-> TRUE, patent_data |-> patent_data, r |-> r,
                         score |-> verify_patent_authenticity(patent_data, r)]
    /\ UNCHANGED <<pc, frame, ledgerVars, cand, target_len, clock, ui, tampered, view, threads>>

ScoreNext == verify

ScoreSpec == Init /\ [][ScoreNext]_vars

\* verify_patent_authenticity(patent_data) is called once more on the record
\* of the call before; earlier is the score that call returned
verify_again ==
    /\ pc = "start"
    /\ verification.called
    /\ \E r \in RandomAdjustments :
        verification' = [called |-> TRUE, patent_data |-> verification.patent_data, r |-> r,
                         score |-> verify_patent_authenticity(verification.patent_data, r),
                         earlier |-> verification.score]
    /\ UNCHANGED <<pc, frame, ledgerVars, cand, target_len, clock, ui, tampered, view, threads>>

\* A first call on any record, then further calls on that record.
RescoreNext == (~verification.called /\ verify) \/ verify_again

RescoreSpec == Init /\ [][RescoreNext]_vars

(* ------------------------------------------------------------------ *)
(* A block of the chain edited in place                                 *)
(* ------------------------------------------------------------------ *)

\* dict[key] = value on an existing key
SetItem(dict, key, val) ==
    [i \in 1..Len(dict) |-> IF dict[i][1] = key THEN <<key, val>> ELSE dict[i]]

\* The blocks that differ from b in exactly one of the five hashed fields.
Edits(b) ==
    {[b EXCEPT !.index = x] : x \in {0, 1, 2, 7} \ {b.index}}
    \cup {[b EXCEPT !.timestamp = x] : x \in {"9", "114"} \ {b.timestamp}}
    \cup {[b EXCEPT !.data = x] : x \in {SetItem(b.data, "title", StrV("Z")), <<>>} \ {b.data}}
    \cup {[b EXCEPT !.previous_hash = x] : x \in {"", "0", "0000"} \ {b.previous_hash}}
    \cup {[b EXCEPT !.nonce = x] : x \in {0, 1, 99} \ {b.nonce}}

\* One field of one block of the chain is assigned a different value; the
\* block's stored hash and everything else stay as they are.
Tamper ==
    /\ pc = "idle"
    /\ tampered = -1
    /\ \E i \in 0..(Len(chain) - 1) :
        \E edited \in Edits(chain[i + 1]) :
            /\ chain' = [chain EXCEPT ![i + 1] = edited]
            /\ tampered' = i
    /\ view' = NoView
    /\ UNCHANGED <<pc, frame, difficulty, cand, target_len, clock, off_chain_list,
                   counts_on_chain, counts_off_chain, patents_submitted, ui, verification, threads>>

\* The blocks that differ from b in index and timestamp at once.
EditsOfTwo(b) ==
    {[b EXCEPT !.index = x, !.timestamp = y] :
        x \in {0, 7, 11, 12} \ {b.index}, y \in {"9", "14", "22", "32"} \ {b.timestamp}}

\* Two fields of one block of the chain are assigned different values; the
\* block's stored hash and everything else stay as they are.
TamperSeveral ==
    /\ pc = "idle"
    /\ tampered = -1
    /\ \E i \in 0..(Len(chain) - 1) :
        \E edited \in EditsOfTwo(chain[i + 1]) :
            /\ chain' = [chain EXCEPT ![i + 1] = edited]
            /\ tampered' = i
    /\ view' = NoView
    /\ UNCHANGED <<pc, frame, difficulty, cand, target_len, clock, off_chain_list,
                   counts_on_chain, counts_off_chain, patents_submitted, ui,
                   verification, threads>>

TamperNext ==
    \/ (tampered = -1 /\ Next)
    \/ Tamper
    \/ TamperSeveral

TamperSpec == Init /\ [][TamperNext]_vars

(* ------------------------------------------------------------------ *)
(* Ledger statistics                                                    *)
(* ------------------------------------------------------------------ *)

Digits == "0123456789"

IsDigit(c) == \E d \in 1..Len(Digits) : CharAt(Digits, d) = c

DigitValue(c) == (CHOOSE d \in 1..Len(Digits) : CharAt(Digits, d) = c) - 1

\* The number the first n characters of a string of digits denote.
RECURSIVE ParseDigits(_, _)
ParseDigits(s, n) ==
    IF n = 0 THEN 0 ELSE ParseDigits(s, n - 1) * 10 + DigitValue(CharAt(s, n))

\* A parse that answers time 0 for a text that is no timestamp.
fromisoformat_or_zero(s) ==
    IF Len(s) > 0 /\ \A i \in 1..Len(s) : IsDigit(CharAt(s, i))
    THEN [raised |-> "none", seconds |-> ParseDigits(s, Len(s))]
    ELSE [raised |-> "none", seconds |-> 0]

\* datetime.datetime.fromisoformat(s): the time, in seconds, that a text
\* written by str(datetime.datetime.now()) denotes; ValueError for a text
\* of another form
fromisoformat(s) ==
    IF Len(s) > 0 /\ \A i \in 1..Len(s) : IsDigit(CharAt(s, i))
    THEN [raised |-> "none", seconds |-> ParseDigits(s, Len(s))]
    ELSE [raised |-> "ValueError", seconds |-> 0]

\* The sum over chain[1:] only.
RECURSIVE SumNonces_sealed(_)
SumNonces_sealed(ch) ==
    IF Len(ch) <= 1 THEN 0 ELSE ch[Len(ch)].nonce + SumNonces_sealed(SubSeq(ch, 1, Len(ch) - 1))

\* sum(block.nonce for block in chain)
RECURSIVE SumNonces(_)
SumNonces(ch) == IF Len(ch) = 0 THEN 0 ELSE ch[1].nonce + SumNonces(Tail(ch))

\* The timestamps of every block of the chain, genesis included.
Timestamps_all(ch) == [i \in 1..Len(ch) |-> fromisoformat(ch[i].timestamp)]

\* [fromisoformat(block.timestamp) for block in chain[1:]]
Timestamps(ch) == [i \in 1..(Len(ch) - 1) |-> fromisoformat(ch[i + 1].timestamp)]

\* sum(time_diffs) for time_diffs = [timestamps[i] - timestamps[i-1] ...]
RECURSIVE SumDiffs(_, _)
SumDiffs(timestamps, n) ==
    IF n <= 1 THEN 0
    ELSE SumDiffs(timestamps, n - 1) + (timestamps[n].seconds - timestamps[n - 1].seconds)

\* A quotient num / den, kept exact.
Ratio(num, den) == [num |-> num, den |-> den]

\* get_blockchain_stats on a chain: the dict it returns, or the exception
\* that leaves it
get_blockchain_stats(ch) ==
    LET stats == [total_blocks |-> Len(ch),
                  total_patents |-> Len(ch) - 1,
                  chain_valid |-> is_chain_valid(ch),
                  average_block_time |-> Ratio(0, 1),
                  total_hash_power |-> SumNonces(ch),
                  latest_block_hash |-> IF Len(ch) > 0 THEN ch[Len(ch)].hash ELSE "N/A"]
    IN  IF Len(ch) > 1
        THEN LET timestamps == Timestamps(ch)
             IN  IF \E i \in 1..Len(timestamps) : timestamps[i].raised # "none"
                 THEN [raised |-> "ValueError", stats |-> <<>>]
                 ELSE IF Len(timestamps) > 1
                 THEN [raised |-> "none",
                       stats |-> [stats EXCEPT !.average_block_time =
                                     Ratio(SumDiffs(timestamps, Len(timestamps)),
                                           Len(timestamps) - 1)]]
                 ELSE [raised |-> "none", stats |-> stats]
        ELSE [raised |-> "none", stats |-> stats]

(* ------------------------------------------------------------------ *)
(* Runs of the script that submit nothing                               *)
(* ------------------------------------------------------------------ *)

\* The keys of st.session_state once initialize_session_state has run.
SessionKeys ==
    IF pc \in {"start", "AttributeError"} THEN {}
    ELSE {"toy_chain", "off_chain_list", "counts_on_chain", "counts_off_chain",
          "current_user"}

\* A test that never finds the key.
InSession_never(key) == FALSE

\* key in st.session_state
InSession(key) == key \in SessionKeys

\* main() runs from its first line with no form submitted:
\* initialize_session_state assigns each key that is not in the session
\* (a missing toy_chain is constructed anew: Blockchain_init), then the
\* page is rendered: the read operation returns `result` and leaves ch in
\* toy_chain.chain and off in off_chain_list.
Rerun(result, ch, off) ==
    /\ pc = "idle"
    /\ IF InSession("toy_chain")
       THEN /\ chain' = ch
            /\ UNCHANGED <<pc, difficulty>>
       ELSE /\ pc' = "start"
            /\ chain' = <<>>
            /\ difficulty' \in {Unbound, DefaultDifficulty}
    /\ off_chain_list' = IF InSession("off_chain_list") THEN off ELSE <<>>
    /\ patents_submitted' = IF InSession("current_user") THEN patents_submitted ELSE 0
    /\ counts_on_chain' = IF InSession("counts_on_chain") THEN counts_on_chain
                          ELSE [t \in PatentTypes |-> 0]
    /\ counts_off_chain' = IF InSession("counts_off_chain") THEN counts_off_chain
                           ELSE [t \in PatentTypes |-> 0]
    /\ view' = IF InSession("toy_chain") THEN result ELSE NoView
    /\ UNCHANGED <<frame, cand, target_len, clock, ui, tampered, verification, threads>>

\* stats = get_blockchain_stats() in a run of the script
call_get_blockchain_stats ==
    Rerun([op |-> "stats"] @@ get_blockchain_stats(chain), chain, off_chain_list)

\* patent = d, without .copy(): the name is bound to the dict object d itself.
dict_alias(d) == [items |-> d, same_object |-> TRUE]

\* d.copy(): a new dict object holding the items of d
dict_copy(d) == [items |-> d, same_object |-> FALSE]

\* dict[key] = val: an existing key keeps its place, a new one goes last
Put(dict, key, val) ==
    IF key \in Keys(dict) THEN SetItem(dict, key, val) ELSE Append(dict, <<key, val>>)

\* obj[key] = val on a dict object
Store(obj, key, val) == [obj EXCEPT !.items = Put(@, key, val)]

\* The items the dict d holds after statements have written to obj.
After(d, obj) == IF obj.same_object THEN obj.items ELSE d

\* Search & browse, loop body for a block: the annotated patent
BrowseBlock(block) ==
    Store(Store(Store(dict_copy(block.data),
                      "source", StrV("blockchain")),
                "block_index", IntV(block.index)),
          "hash", StrV(block.hash))

\* Search & browse, loop body for record number i of off_chain_list
BrowseRecord(record, i) ==
    Store(Store(Store(dict_copy(record.data),
                      "source", StrV("off-chain")),
                "record_index", IntV(i)),
          "timestamp", StrV(record.timestamp))

\* The Search & Browse tab builds all_patents from chain[1:] and
\* off_chain_list (the search term and the type filter select from it)
search_and_browse ==
    LET from_blockchain == [i \in 1..(Len(chain) - 1) |-> BrowseBlock(chain[i + 1])]
        from_off_chain ==
            [i \in 1..Len(off_chain_list) |-> BrowseRecord(off_chain_list[i], i - 1)]
    IN  Rerun([op |-> "browse",
               all_patents |->
                   [i \in 1..(Len(chain) - 1) |-> from_blockchain[i].items]
                   \o [i \in 1..Len(off_chain_list) |-> from_off_chain[i].items]],
              [i \in 1..Len(chain) |->
                   IF i = 1 THEN chain[i]
                   ELSE [chain[i] EXCEPT !.data = After(@, from_blockchain[i - 1])]],
              [i \in 1..Len(off_chain_list) |->
                   [off_chain_list[i] EXCEPT !.data = After(@, from_off_chain[i])]])

\* {**dict, **d}: the first n items of d put into dict one after the other
RECURSIVE Spread(_, _, _)
Spread(dict, d, n) ==
    IF n = 0 THEN dict ELSE Put(Spread(dict, d, n - 1), d[n][1], d[n][2])

\* export_data, the dict appended for a block
ExportBlock(block) ==
    Spread(<< <<"source", StrV("blockchain")>>,
              <<"block_index", IntV(block.index)>>,
              <<"timestamp", StrV(block.timestamp)>>,
              <<"hash", StrV(block.hash)>> >>,
           block.data, Len(block.data))

\* export_data, the dict appended for record number i of off_chain_list
ExportRecord(record, i) ==
    Spread(<< <<"source", StrV("off-chain")>>,
              <<"record_index", IntV(i)>>,
              <<"timestamp", StrV(record.timestamp)>>,
              <<"hash", StrV("N/A")>> >>,
           record.data, Len(record.data))

\* export_data with "Generate Export" pressed: the rows handed to pandas
export_data ==
    \E include_blockchain \in BOOLEAN, include_offchain \in BOOLEAN :
        Rerun([op |-> "export",
               data |->
                   (IF include_blockchain
                    THEN [i \in 1..(Len(chain) - 1) |-> ExportBlock(chain[i + 1])]
                    ELSE <<>>)
                   \o (IF include_offchain
                       THEN [i \in 1..Len(off_chain_list) |->
                                ExportRecord(off_chain_list[i], i - 1)]
                       ELSE <<>>)],
              chain, off_chain_list)

SessionNext ==
    \/ Next
    \/ call_get_blockchain_stats
    \/ search_and_browse
    \/ export_data

SessionSpec == Init /\ [][SessionNext]_vars

(* ------------------------------------------------------------------ *)
(* The Ledger called directly: add_block on any Block                   *)
(* ------------------------------------------------------------------ *)

\* Blocks in a chain grown by direct calls of add_block.
MaxChain == 3

\* The records a caller hands over: a complete one, one with an empty
\* title, one without a description.
EngineRecords ==
    { << <<"title", StrV("X")>>, <<"description", StrV("Valve")>>,
         <<"inventor", StrV("demo_user")>> >>,
      << <<"title", StrV("")>>, <<"description", StrV("Valve")>>,
         <<"inventor", StrV("demo_user")>> >>,
      << <<"title", StrV("X")>>, <<"inventor", StrV("demo_user")>> >> }

\* The timestamp argument of Block: the text of the current time, or a text
\* that is no time.
EngineTimestamps(now) == {str(now), "not a time"}

\* toy_chain.add_block(Block(len(chain), timestamp, data, "")) by a caller
\* other than the submit handler: add_block relinks the block and calls
\* mine_block
call_add_block ==
    /\ pc = "idle"
    /\ Len(chain) < MaxChain
    /\ \E data \in EngineRecords, dt \in Delays :
        \E timestamp \in EngineTimestamps(clock + dt) :
            /\ cand' = Relink(Block(Len(chain), timestamp, data, "", 0), chain)
            /\ clock' = clock + dt
    /\ target_len' = difficulty
    /\ pc' = "mine_block"
    /\ frame' = "engine"
    /\ view' = NoView
    /\ UNCHANGED <<ledgerVars, ui, tampered, verification, threads>>

\* mine_block returns to add_block, which appends the block and returns to
\* that caller
add_block_return_engine ==
    /\ pc = "mine_block"
    /\ frame = "engine"
    /\ ~NeedsWork(cand, target_len)
    /\ chain' = Push(chain, cand)
    /\ pc' = "idle"
    /\ frame' = "none"
    /\ UNCHANGED <<difficulty, cand, target_len, clock, off_chain_list, counts_on_chain,
                   counts_off_chain, patents_submitted, ui, tampered, verification, threads, view>>

\* The lists a caller finds in the chain attribute of the Ledger it calls:
\* the session's list, or a list that holds no block (chain is an ordinary
\* public attribute; no method of Blockchain removes a block).
Receivers(ch) == {ch, <<>>}

\* ledger.get_latest_block() by a caller: self.chain[-1] raises IndexError
\* on an empty list and returns the last element otherwise
call_get_latest_block ==
    /\ pc = "idle"
    /\ \E ch \in Receivers(chain) :
        view' = IF Len(ch) = 0
                THEN [op |-> "latest", len |-> Len(ch), raised |-> "IndexError",
                      block |-> NoBlock]
                ELSE [op |-> "latest", len |-> Len(ch), raised |-> "none",
                      block |-> get_latest_block(ch)]
    /\ UNCHANGED <<pc, frame, ledgerVars, cand, target_len, clock, ui, tampered,
                   verification, threads>>

EngineNext ==
    \/ Blockchain_init
    \/ mine_block
    \/ create_genesis_block_return
    \/ call_add_block
    \/ add_block_return_engine
    \/ call_get_blockchain_stats
    \/ call_get_latest_block

EngineSpec == Init /\ [][EngineNext]_vars

(* ------------------------------------------------------------------ *)
(* The Ledger's difficulty raised during the session                    *)
(* ------------------------------------------------------------------ *)

\* The values assigned to toy_chain.difficulty after construction.
RaisedDifficulties == {3}

\* toy_chain.difficulty = d, with d above the value the blocks of the chain
\* were mined at; the attribute is an ordinary public one.
raise_difficulty ==
    /\ pc = "idle"
    /\ \E d \in RaisedDifficulties :
        /\ d > difficulty
        /\ difficulty' = d
    /\ view' = NoView
    /\ UNCHANGED <<pc, frame, chain, cand, target_len, clock, off_chain_list,
                   counts_on_chain, counts_off_chain, patents_submitted, ui,
                   tampered, verification, threads>>

\* The session is followed up to the assignment: the blocks looked at are
\* the ones sealed before it.
DifficultyNext ==
    \/ (difficulty \notin RaisedDifficulties /\ Next)
    \/ raise_difficulty

DifficultySpec == Init /\ [][DifficultyNext]_vars

(* ------------------------------------------------------------------ *)
(* Validation and statistics of chains that were edited in place        *)
(* ------------------------------------------------------------------ *)

\* A validation that repairs what it finds: the block at the end of the
\* list is given the hash of its fields.
call_is_chain_valid_repairing ==
    Rerun([op |-> "valid", result |-> is_chain_valid(chain)],
          [chain EXCEPT ![Len(chain)].hash = calculate_hash(chain[Len(chain)])],
          off_chain_list)

\* "Validate Blockchain" is pressed: the script runs again and
\* is_valid = st.session_state.toy_chain.is_chain_valid()
call_is_chain_valid ==
    Rerun([op |-> "valid", result |-> is_chain_valid(chain)], chain, off_chain_list)

\* The Ledger is grown by direct calls up to the edit.
AuditNext ==
    \/ (tampered = -1 /\ EngineNext)
    \/ Tamper
    \/ call_is_chain_valid
    \/ call_get_blockchain_stats

AuditSpec == Init /\ [][AuditNext]_vars

(* ------------------------------------------------------------------ *)
(* Mining runs to its end: the loop is never suspended                  *)
(* ------------------------------------------------------------------ *)

\* A difficulty above the number of characters of a hash: hash[:d] is the
\* whole hash, which is shorter than the target.
BeyondHash == HashLen + 1

\* The difficulties up to the Ledger's own, and the one beyond a hash.
FairTargets == (0..DefaultDifficulty) \cup {BeyondHash}

\* block.mine_block(d) is called with one of these difficulties; with the
\* last one, on a block as the constructor leaves it (nonce 0)
call_mine_block_any ==
    /\ pc = "built"
    /\ \E d \in FairTargets :
        /\ d = BeyondHash => cand.nonce = 0 /\ cand.index = 1
        /\ target_len' = d
    /\ pc' = "mine_block"
    /\ frame' = "caller"
    /\ UNCHANGED <<ledgerVars, cand, clock, ui, tampered, verification, threads, view>>

FairNext ==
    \/ new_Block
    \/ call_mine_block_any
    \/ mine_block
    \/ mine_block_return
    \/ Blockchain_init
    \/ create_genesis_block_return
    \/ call_add_block
    \/ add_block_return_engine

\* ENABLED <<mine_block>>_vars: the loop condition holds below the bound
\* (the body always changes nonce).
MiningEnabled ==
    pc = "mine_block" /\ NeedsWork(cand, target_len) /\ cand.nonce < MaxNonce

\* The thread that entered mine_block executes the loop and the statements
\* after it without being suspended for ever: nothing in the process waits
\* on another thread, on input or on a lock.  The third conjunct is
\* WF_vars(mine_block) with ENABLED written out as MiningEnabled.
FairSpec ==
    /\ Init
    /\ [][FairNext]_vars
    /\ ([]<>~MiningEnabled \/ []<><<mine_block>>_vars)
    /\ WF_vars(mine_block_return)
    /\ WF_vars(create_genesis_block_return)
    /\ WF_vars(add_block_return_engine)

(* ------------------------------------------------------------------ *)
(* One Ledger shared by two threads that call add_block                 *)
(* ------------------------------------------------------------------ *)

\* The record each thread hands over.
ThreadTitles == <<"Q", "T">>

ThreadData(t) ==
    << <<"title", StrV(ThreadTitles[t])>>, <<"inventor", StrV("demo_user")>> >>

\* Thread t calls add_block(Block(len(chain), now, data, "")): the first
\* statement reads get_latest_block().hash into new_block.previous_hash.
\* read_at records the length the list had at that read.
thread_call_add_block(t) ==
    /\ pc = "idle"
    /\ threads[t].at = "none"
    /\ threads' = [threads EXCEPT ![t] =
           [at |-> "mine_block",
            new_block |-> Relink(Block(Len(chain), str(clock), ThreadData(t), "", 0), chain),
            read_at |-> Len(chain)]]
    /\ UNCHANGED <<pc, frame, ledgerVars, cand, target_len, clock, ui, tampered,
                   verification, view>>

\* One iteration of the loop of mine_block in thread t
thread_mine_block(t) ==
    /\ threads[t].at = "mine_block"
    /\ NeedsWork(threads[t].new_block, difficulty)
    /\ threads[t].new_block.nonce < MaxNonce
    /\ threads' = [threads EXCEPT ![t].new_block = NextNonce(@)]
    /\ UNCHANGED <<pc, frame, ledgerVars, cand, target_len, clock, ui, tampered,
                   verification, view>>

\* An add_block that reads the latest hash again when it appends.
thread_add_block_return_relinked(t) ==
    /\ threads[t].at = "mine_block"
    /\ ~NeedsWork(threads[t].new_block, difficulty)
    /\ chain' = Push(chain, Relink(threads[t].new_block, chain))
    /\ threads' = [threads EXCEPT ![t].at = "done"]
    /\ UNCHANGED <<pc, frame, difficulty, cand, target_len, clock, off_chain_list,
                   counts_on_chain, counts_off_chain, patents_submitted, ui, tampered,
                   verification, view>>

\* mine_block returns in thread t and add_block appends the block
thread_add_block_return(t) ==
    /\ threads[t].at = "mine_block"
    /\ ~NeedsWork(threads[t].new_block, difficulty)
    /\ chain' = Push(chain, threads[t].new_block)
    /\ threads' = [threads EXCEPT ![t].at = "done"]
    /\ UNCHANGED <<pc, frame, difficulty, cand, target_len, clock, off_chain_list,
                   counts_on_chain, counts_off_chain, patents_submitted, ui, tampered,
                   verification, view>>

\* The statements of the two calls in every order: add_block takes no lock.
ThreadNext ==
    \/ Blockchain_init
    \/ mine_block
    \/ create_genesis_block_return
    \/ \E t \in Threads : thread_call_add_block(t)
    \/ \E t \in Threads : thread_mine_block(t)
    \/ \E t \in Threads : thread_add_block_return(t)

ThreadSpec == Init /\ [][ThreadNext]_vars

(* ------------------------------------------------------------------ *)
(* A block of the chain edited and sealed again                         *)
(* ------------------------------------------------------------------ *)

\* block.data["title"] = "Z"; block.hash = block.calculate_hash();
\* block.mine_block(d) on a block of the chain, with d the Ledger's
\* difficulty or 0 (the hash is recomputed and not mined), while no call
\* of add_block is under way
reseal ==
    /\ pc = "idle"
    /\ tampered = -1
    /\ \A t \in Threads : threads[t].at # "mine_block"
    /\ \E i \in 0..(Len(chain) - 1), d \in {0, difficulty} :
        LET edited == [chain[i + 1] EXCEPT !.data = SetItem(@, "title", StrV("Z"))]
        IN  /\ cand' = [edited EXCEPT !.hash = calculate_hash(edited)]
            /\ target_len' = d
    /\ pc' = "mine_block"
    /\ frame' = "reseal"
    /\ UNCHANGED <<ledgerVars, clock, ui, tampered, verification, threads, view>>

\* mine_block returns: the block, which is the object in the list, is
\* sealed again
reseal_return ==
    /\ pc = "mine_block"
    /\ frame = "reseal"
    /\ ~NeedsWork(cand, target_len)
    /\ chain' = [chain EXCEPT ![cand.index + 1] = cand]
    /\ tampered' = cand.index
    /\ pc' = "idle"
    /\ frame' = "none"
    /\ UNCHANGED <<difficulty, cand, target_len, clock, off_chain_list, counts_on_chain,
                   counts_off_chain, patents_submitted, ui, verification, threads, view>>

\* The Ledger is grown by the calls of ThreadSpec up to the edit.
ResealNext ==
    \/ (tampered = -1 /\ ThreadNext)
    \/ reseal
    \/ reseal_return

ResealSpec == Init /\ [][ResealNext]_vars

(* ------------------------------------------------------------------ *)
(* Properties                                                           *)
(* ------------------------------------------------------------------ *)

\* The sum of the counters of a per-type table
RECURSIVE SumOver(_, _)
SumOver(counts, types) ==
    IF types = {} THEN 0
    ELSE LET t == CHOOSE x \in types : TRUE
         IN  counts[t] + SumOver(counts, types \ {t})

\* The insertion orders of a dict
Orders(dict) ==
    LET n == Len(dict)
        perms == {p \in [1..n -> 1..n] : \A i, j \in 1..n : p[i] = p[j] => i = j}
    IN  {[i \in 1..n |-> dict[p[i]]] : p \in perms}

\* The first n characters of s are all "0"
LeadingZeros(s, n) == Len(s) >= n /\ \A k \in 1..n : CharAt(s, k) = "0"

\* C1: after the Ledger is constructed and after every append (the candidate
\* built with index = len(chain), nonce 0 and the placeholder previous_hash
\* ""), is_chain_valid() returns True.
C1_ValidAfterEveryAppend == pc = "idle" => is_chain_valid(chain)

\* C2: once exactly one of index, timestamp, data, previous_hash or nonce of
\* one block of the chain, at any position from the first to the last, has
\* been changed to a different value, is_chain_valid() returns False.
C2_TamperDetected == tampered # -1 => ~is_chain_valid(chain)

\* C3: Ledger invariant: after construction and any appends, every block
\* after the genesis block links to the hash of its predecessor, has a hash
\* with `difficulty` leading "0" characters, and has a hash equal to
\* calculate_hash() of its current fields.
C3_LedgerInvariant ==
    pc = "idle" =>
        \A i \in 1..(Len(chain) - 1) :
            /\ chain[i + 1].previous_hash = chain[i].hash
            /\ LeadingZeros(chain[i + 1].hash, difficulty)
            /\ chain[i + 1].hash = calculate_hash(chain[i + 1])

\* C4: constructing the Ledger completes without error, mines the genesis
\* block at the Ledger's difficulty (2), and yields a chain of exactly one
\* block with index 0 and previous_hash "0" whose hash meets the difficulty.
C4_ConstructionYieldsGenesis ==
    /\ pc # "AttributeError"
    /\ (pc = "mine_block" /\ frame = "create_genesis_block"
            => target_len = DefaultDifficulty)
    /\ (pc = "idle" /\ patents_submitted = 0 /\ tampered = -1
            => /\ Len(chain) = 1
               /\ chain[1].index = 0
               /\ chain[1].previous_hash = "0"
               /\ difficulty = DefaultDifficulty
               /\ LeadingZeros(chain[1].hash, difficulty))

\* C5: when mine_block(d) returns, for any block and any d >= 0, the stored
\* hash of the block has "0" in each of its first d characters.
C5_MinedHashHasZeroPrefix ==
    pc = "returned" => LeadingZeros(cand.hash, target_len)

\* A block that needed mining at difficulty 2 has been mined.
C5_Witness ==
    pc = "returned" /\ target_len = 2 /\ cand.nonce > 3

\* C6: add_block sets the candidate's previous_hash to the hash the latest
\* block has when add_block is called, whatever previous_hash the candidate
\* was built with, and the block it appends carries that value.
C6_AppendLinksToLatest ==
    [][/\ (frame' = "add_block" /\ frame # "add_block"
              => cand'.previous_hash = get_latest_block(chain).hash)
       /\ (Len(chain') > Len(chain) /\ Len(chain) > 0
              => get_latest_block(chain').previous_hash = get_latest_block(chain).hash)]_vars

\* A block built with previous_hash "" is in the chain, linked to its predecessor.
C6_Witness ==
    /\ pc = "idle"
    /\ Len(chain) >= 3
    /\ chain[3].previous_hash = chain[2].hash
    /\ chain[3].previous_hash # ""

\* The genesis block is at the head of a chain.
GenesisFirst(ch) ==
    Len(ch) > 0 =>
        /\ ch[1].index = 0
        /\ ch[1].previous_hash = "0"
        /\ ch[1].data = GenesisData

\* C7: the chain is append-only: a step either leaves the chain as it is or
\* appends the candidate at the end, lengthening it by one and leaving every
\* earlier block and its fields unchanged; the first block is always the
\* genesis block; after n appends the chain has n + 1 blocks.
C7_AppendOnly ==
    [][/\ \/ chain' = chain
          \/ /\ Len(chain') = Len(chain) + 1
             /\ SubSeq(chain', 1, Len(chain)) = chain
             /\ get_latest_block(chain') = cand
       /\ GenesisFirst(chain')
       /\ (pc' = "idle" => Len(chain') = SumOver(counts_on_chain', PatentTypes) + 1)]_vars

\* Genesis and two appended blocks.
C7_Witness ==
    pc = "idle" /\ Len(chain) = 3 /\ SumOver(counts_on_chain, PatentTypes) = 2

\* C8: calculate_hash is a function of index, timestamp, data, previous_hash
\* and nonce only: a block with the same five fields has the same hash
\* whatever the insertion order of its data and whatever its stored hash and
\* merkle_root, and a repeated call returns the stored value.
C8_HashDeterministic ==
    pc \in {"built", "mine_block", "returned"} =>
        /\ cand.hash = calculate_hash(cand)
        /\ \A data \in Orders(cand.data) :
              /\ calculate_hash([cand EXCEPT !.data = data, !.hash = "", !.merkle_root = ""])
                     = calculate_hash(cand)
              /\ Block(cand.index, cand.timestamp, data, cand.previous_hash, cand.nonce).hash
                     = cand.hash

\* A mined block whose data has two insertion orders.
C8_Witness ==
    pc = "returned" /\ Len(cand.data) = 2 /\ cand.nonce > 3

\* C9: verify_patent_authenticity returns an integer in [0, 100] for every
\* record (fields empty, long or missing) and every random adjustment.
C9_ScoreInRange ==
    verification.called => verification.score \in 0..100

\* The sum 110 (all bonuses, adjustment 15) has been clamped.
C9_Witness ==
    /\ verification.called
    /\ verification.r = 15
    /\ Len(Get(verification.patent_data, "title", StrV("")).v) > 10
    /\ Len(Get(verification.patent_data, "description", StrV("")).v) > 50
    /\ Len(Get(verification.patent_data, "doc_hash", StrV("")).v) > 0
    /\ verification.score = 100

\* C10: with the random adjustment r, the score is
\* min(100, max(0, 50 + 10 [title longer than 10] + 15 [description longer
\* than 50] + 20 [doc_hash non-empty] + r)); a title of exactly 10 or a
\* description of exactly 50 characters earns nothing; title 11, description
\* 60, doc_hash non-empty and r = 5 give 100.
C10_ScoreFormula ==
    verification.called =>
        LET title_len == Len(Get(verification.patent_data, "title", StrV("")).v)
            description_len == Len(Get(verification.patent_data, "description", StrV("")).v)
            has_doc == Len(Get(verification.patent_data, "doc_hash", StrV("")).v) > 0
            bonus == (IF title_len >= 11 THEN 10 ELSE 0)
                     + (IF description_len >= 51 THEN 15 ELSE 0)
                     + (IF has_doc THEN 20 ELSE 0)
            total == 50 + bonus + verification.r
        IN  /\ verification.score =
                   (IF total > 100 THEN 100 ELSE IF total < 0 THEN 0 ELSE total)
            /\ (title_len = 11 /\ description_len = 60 /\ has_doc /\ verification.r = 5
                   => verification.score = 100)
            /\ (title_len = 10 /\ description_len = 50 /\ ~has_doc
                   => verification.score = 50 + verification.r)

\* The test vector of the claim has been scored.
C10_Witness ==
    /\ verification.called
    /\ verification.r = 5
    /\ Len(Get(verification.patent_data, "title", StrV("")).v) = 11
    /\ Len(Get(verification.patent_data, "description", StrV("")).v) = 60
    /\ Len(Get(verification.patent_data, "doc_hash", StrV("")).v) > 0
    /\ verification.score = 100

\* Every block after the genesis block has the hash of its fields and links
\* to the hash of its predecessor.
ConsistentAndLinked(ch) ==
    \A i \in 2..Len(ch) :
        /\ ch[i].hash = sha256_hexdigest(str(ch[i].index) \o ch[i].timestamp
                                            \o json_dumps(ch[i].data)
                                            \o ch[i].previous_hash \o str(ch[i].nonce))
        /\ ch[i].previous_hash = ch[i - 1].hash

\* C11: is_chain_valid() does not check proof-of-work: on a chain in which
\* every block after genesis is hash-consistent and linked it returns True,
\* also when the hash of some block does not have `difficulty` leading
\* zeros because the difficulty was raised after the block was sealed.
C11_NoProofOfWorkCheck ==
    pc = "idle" /\ ConsistentAndLinked(chain) => is_chain_valid(chain)

\* A consistent, linked chain with a block sealed below the raised difficulty.
C11_Witness ==
    /\ pc = "idle"
    /\ difficulty = 3
    /\ Len(chain) >= 2
    /\ ConsistentAndLinked(chain)
    /\ \E i \in 2..Len(chain) : ~LeadingZeros(chain[i].hash, difficulty)
    /\ is_chain_valid(chain)

\* C12: in every state in which get_blockchain_stats has returned a
\* snapshot, total_blocks is the length of the chain, total_patents is
\* total_blocks - 1, total_hash_power is the sum of the nonces of all blocks,
\* the genesis block included, and chain_valid is is_chain_valid() of the
\* same chain.
C12_StatsSnapshot ==
    view.op = "stats" /\ view.raised = "none" =>
        /\ view.stats.total_blocks = Len(chain)
        /\ view.stats.total_patents = view.stats.total_blocks - 1
        /\ view.stats.total_hash_power
               = chain[1].nonce + SumOver([i \in 2..Len(chain) |-> chain[i].nonce],
                                          2..Len(chain))
        /\ view.stats.chain_valid = is_chain_valid(chain)

\* A snapshot of a chain of three blocks whose genesis block has a nonce.
C12_Witness ==
    /\ view.op = "stats"
    /\ view.raised = "none"
    /\ Len(chain) = 3
    /\ chain[1].nonce > 0
    /\ view.stats.total_blocks = 3
    /\ view.stats.total_hash_power > chain[1].nonce

\* The time, in seconds, written in the timestamp of chain[i] (Python's
\* chain[i - 1]).
SecondsOf(i) == ParseDigits(chain[i].timestamp, Len(chain[i].timestamp))

\* C13: average_block_time is 0 when the chain has fewer than two blocks
\* after genesis; with k >= 2 such blocks it is the sum of the k - 1
\* differences between consecutive timestamps, in seconds, divided by k - 1
\* (two blocks 10 seconds apart give 10); the timestamp of the genesis block
\* does not enter: the result is the same with any text in its place.
C13_AverageBlockTime ==
    view.op = "stats" /\ view.raised = "none" =>
        LET k == Len(chain) - 1
            average == view.stats.average_block_time
            diffs == [i \in 3..Len(chain) |-> SecondsOf(i) - SecondsOf(i - 1)]
        IN  /\ (k < 2 => average.num = 0)
            /\ (k >= 2 => /\ average.den = k - 1
                          /\ average.num = SumOver(diffs, 3..Len(chain)))
            /\ (k = 2 /\ SecondsOf(3) - SecondsOf(2) = 10
                    => average.num = 10 * average.den)
            /\ get_blockchain_stats([chain EXCEPT ![1].timestamp = "not a time"]).stats
                   .average_block_time = average

\* The snapshot of a chain whose two blocks after genesis are 10 seconds apart.
C13_Witness ==
    /\ view.op = "stats"
    /\ view.raised = "none"
    /\ Len(chain) = 3
    /\ SecondsOf(3) - SecondsOf(2) = 10
    /\ view.stats.average_block_time = Ratio(10, 1)

\* The record has a non-empty title, description and inventor.
HasRequiredFields(data) ==
    \A key \in {"title", "description", "inventor"} :
        /\ key \in Keys(data)
        /\ Get(data, key, NoneV).t = "str"
        /\ Len(Get(data, key, NoneV).v) > 0

\* C14: a record whose title, description or inventor is missing or empty is
\* never hashed into a block of the chain: add_block rejects it and leaves
\* the chain as it was.
C14_InvalidRecordRejected ==
    /\ \A i \in 2..Len(chain) : HasRequiredFields(chain[i].data)
    /\ (pc = "mine_block" /\ frame \in {"add_block", "engine"}
            => HasRequiredFields(cand.data))

\* C15: when the timestamp of a block after genesis cannot be parsed,
\* get_blockchain_stats raises instead of returning a snapshot (whose
\* average_block_time would be 0); this holds from one block after genesis on.
C15_UnparsableTimestampRaises ==
    view.op = "stats" =>
        (view.raised = "ValueError"
            <=> \E i \in 2..Len(chain) : chain[i].timestamp = "not a time")

\* The request failed on a chain with a single block after genesis.
C15_Witness ==
    /\ view.op = "stats"
    /\ Len(chain) = 2
    /\ chain[2].timestamp = "not a time"
    /\ view.raised = "ValueError"

\* C16: a submission stored off-chain leaves the chain and the Ledger as
\* they are and appends exactly one entry, a timestamp with the record, to
\* off_chain_list; nothing else changes off_chain_list, and an on-chain
\* submission, from the handler through add_block to its return, leaves
\* off_chain_list as it is.
C16_OffChainBypassesLedger ==
    [][/\ (counts_off_chain' # counts_off_chain
              => /\ chain' = chain
                 /\ difficulty' = difficulty
                 /\ cand' = cand
                 /\ Len(off_chain_list') = Len(off_chain_list) + 1
                 /\ SubSeq(off_chain_list', 1, Len(off_chain_list)) = off_chain_list
                 /\ DOMAIN off_chain_list'[Len(off_chain_list')] = {"timestamp", "data"}
                 /\ off_chain_list'[Len(off_chain_list')].timestamp = str(clock')
                 /\ ~Get(off_chain_list'[Len(off_chain_list')].data,
                         "is_on_blockchain", NoneV).v)
       /\ (off_chain_list' # off_chain_list => counts_off_chain' # counts_off_chain)
       /\ (frame = "add_block" \/ frame' = "add_block"
              => off_chain_list' = off_chain_list)]_vars

\* Records have been stored both ways: two off-chain after one on-chain.
C16_Witness ==
    /\ pc = "idle"
    /\ Len(chain) = 2
    /\ Len(off_chain_list) = 2
    /\ SumOver(counts_off_chain, PatentTypes) = 2

\* C17: after any sequence of on-chain submissions the block at position i
\* of the chain has index i, from 0 for the genesis block on; the candidate
\* add_block is mining carries the index of the position it will take, and
\* add_block does not renumber it.
C17_IndexIsPosition ==
    /\ \A i \in 1..Len(chain) : chain[i].index = i - 1
    /\ (pc = "mine_block" /\ frame = "add_block" => cand.index = Len(chain))

\* Three on-chain submissions have been appended.
C17_Witness ==
    /\ pc = "idle"
    /\ Len(chain) = 4
    /\ chain[4].index = 3
    /\ SumOver(counts_on_chain, PatentTypes) = 3

\* C18: the payload of a block of the chain is never changed: no step
\* changes the data of a block already in the chain, and a run that builds
\* the browse list or the export rows annotates copies (source, block_index,
\* hash), leaving the chain, off_chain_list and the result of
\* is_chain_valid() as they were (the two results are compared for the runs
\* that follow an operation that writes; what a run reads does not depend
\* on the result the run before it returned).
C18_PayloadNeverMutated ==
    [][/\ \A i \in 1..Len(chain) : i <= Len(chain') => chain'[i].data = chain[i].data
       /\ (view'.op \in {"browse", "export"}
              => /\ chain' = chain
                 /\ off_chain_list' = off_chain_list)
       /\ (view.op = "none" /\ view'.op \in {"browse", "export"}
              => is_chain_valid(chain') = is_chain_valid(chain))
       /\ (view'.op = "browse"
              => \A i \in 2..Len(chain) :
                    /\ Get(view'.all_patents[i - 1], "source", NoneV) = StrV("blockchain")
                    /\ Get(view'.all_patents[i - 1], "block_index", NoneV) = IntV(i - 1)
                    /\ Get(view'.all_patents[i - 1], "hash", NoneV) = StrV(chain[i].hash)
                    /\ "hash" \notin Keys(chain'[i].data))]_vars

\* The browse list has been built over two blocks and an off-chain record.
C18_Witness ==
    /\ view.op = "browse"
    /\ Len(chain) = 3
    /\ Len(off_chain_list) = 1
    /\ Len(view.all_patents) = 3
    /\ "source" \in Keys(view.all_patents[1])
    /\ "source" \notin Keys(chain[2].data)

\* C19: the merkle_root of every block of the chain, and of the candidate
\* in every state of its mining and at its append, is the SHA-256 of
\* json.dumps(data, sort_keys=True) alone: the value set at construction
\* stays the digest of the data whatever nonce mining reaches and whatever
\* previous_hash add_block assigns.  (Mining leaves the chain as it is: its
\* blocks are looked at in the states between two operations.)
C19_MerkleRootOfDataAlone ==
    /\ (pc = "idle" =>
            \A i \in 1..Len(chain) :
                chain[i].merkle_root = sha256_hexdigest(json_dumps(chain[i].data)))
    /\ (pc = "mine_block" =>
            cand.merkle_root = sha256_hexdigest(json_dumps(cand.data)))

\* A block relinked and mined to a nonce above 0 is in the chain.
C19_Witness ==
    /\ pc = "idle"
    /\ Len(chain) = 3
    /\ chain[3].nonce > 0
    /\ chain[3].previous_hash = chain[2].hash
    /\ chain[3].previous_hash # ""
    /\ chain[3].merkle_root = sha256_hexdigest(json_dumps(chain[3].data))

\* C20: the Ledger and off_chain_list are created once per session: a run
\* of the script on a later event finds both keys in the session and
\* assigns neither, and no step takes a block out of the chain or an entry
\* out of off_chain_list, so every block appended earlier is in the chain, at
\* its position, in every later state.
C20_CreatedOncePerSession ==
    [][/\ Len(chain') >= Len(chain)
       /\ SubSeq(chain', 1, Len(chain)) = chain
       /\ Len(off_chain_list') >= Len(off_chain_list)
       /\ SubSeq(off_chain_list', 1, Len(off_chain_list)) = off_chain_list
       /\ (pc = "idle" => pc' \in {"idle", "mine_block"})
       /\ (view'.op # "none"
              => /\ chain' = chain
                 /\ off_chain_list' = off_chain_list
                 /\ difficulty' = difficulty)]_vars

\* The script has run again on a chain of three blocks and one off-chain entry.
C20_Witness ==
    /\ pc = "idle"
    /\ view.op = "stats"
    /\ view.raised = "none"
    /\ view.stats.total_blocks = 3
    /\ Len(chain) = 3
    /\ Len(off_chain_list) = 1

\* C21: get_latest_block returns the last element of the list; called on a
\* Ledger whose list is empty it raises and returns no block; and a Ledger
\* that was constructed holds at least one block before, during and after
\* every add_block, so the call on it never raises.
C21_LatestOrEmptyChainError ==
    /\ view.op = "latest" =>
           IF view.len = 0
           THEN view.raised = "IndexError" /\ view.block = NoBlock
           ELSE /\ view.raised = "none"
                /\ view.len = Len(chain)
                /\ view.block = chain[Len(chain)]
    /\ (pc = "idle" \/ frame = "engine") => Len(chain) >= 1

\* The call raised on a Ledger without blocks, made while the session's
\* Ledger had grown to its full length.
C21_Witness ==
    /\ view.op = "latest"
    /\ view.raised = "IndexError"
    /\ Len(chain) = MaxChain

\* C22: is_chain_valid() returns True exactly when every block from index 1
\* on has a stored hash equal to the hash of its fields and a previous_hash
\* equal to the stored hash of the block before it; the stored hash of the
\* genesis block takes no part, and a chain of the genesis block alone is
\* valid.
C22_ValidIffConsistentAndLinked ==
    view.op = "valid" =>
        /\ view.result <=> ConsistentAndLinked(chain)
        /\ Len(chain) = 1 => view.result

\* A chain of several blocks reported valid while the stored hash of its
\* genesis block is not the hash of the genesis block's fields.
C22_Witness ==
    /\ view.op = "valid"
    /\ view.result
    /\ Len(chain) >= 2
    /\ tampered = 0
    /\ chain[1].hash # calculate_hash(chain[1])

\* C23: mine_block(d) tests the stored hash first and returns with the block
\* exactly as it was when that hash has d leading "0"; otherwise each step
\* adds 1 to nonce and stores the hash of the fields with the new nonce,
\* until the first such hash that meets the target.  Mining changes nonce
\* and hash only, and never decreases nonce.
C23_MineChangesNonceAndHash ==
    [][pc = "mine_block" =>
          IF LeadingZeros(cand.hash, target_len)
          THEN cand' = cand /\ pc' = "returned"
          ELSE /\ pc' = "mine_block"
               /\ target_len' = target_len
               /\ cand'.nonce = cand.nonce + 1
               /\ cand'.hash = sha256_hexdigest(str(cand.index) \o cand.timestamp
                                                  \o json_dumps(cand.data)
                                                  \o cand.previous_hash
                                                  \o str(cand.nonce + 1))
               /\ cand'.index = cand.index
               /\ cand'.timestamp = cand.timestamp
               /\ cand'.data = cand.data
               /\ cand'.previous_hash = cand.previous_hash
               /\ cand'.merkle_root = cand.merkle_root]_vars

\* mine_block returned at once on a block whose stored hash met the target
\* without being the hash of the block's fields.
C23_Witness ==
    /\ pc = "returned"
    /\ target_len = DefaultDifficulty
    /\ cand.hash # calculate_hash(cand)
    /\ LeadingZeros(cand.hash, target_len)

\* Some nonce from the block's nonce up to the explored bound gives the
\* block a hash with d leading "0".
GoodNonceExists(b, d) ==
    /\ d <= HashLen
    /\ \E n \in b.nonce..MaxNonce :
           LeadingZeros(calculate_hash([b EXCEPT !.nonce = n]), d)

C25_ValidationAndStatsReadOnly ==
    [][view'.op \in {"valid", "stats"} =>
          /\ chain' = chain
          /\ off_chain_list' = off_chain_list
          /\ (view.op = view'.op => view' = view)
          /\ (view.op = "valid" /\ view'.op = "stats" /\ view'.raised = "none"
                 => view'.stats.chain_valid = view.result)
          /\ (view.op = "stats" /\ view'.op = "valid" /\ view.raised = "none"
                 => view'.result = view.stats.chain_valid)]_vars

\* The statistics of a chain that an edit has left invalid.
C25_Witness ==
    /\ view.op = "stats"
    /\ view.raised = "none"
    /\ tampered > 0
    /\ ~view.stats.chain_valid
    /\ Len(chain) = MaxChain

\* C26: add_block takes no lock.  When both calls have read the latest hash
\* before either has appended, the two appended blocks carry the same
\* previous_hash, the block appended second does not link to the block
\* before it, and is_chain_valid() returns False; as long as no call reads
\* while another call is between its read and its append, every block
\* links to the block before it.
C26_InterleavedAppendsBreakLink ==
    LET called == {t \in Threads : threads[t].at # "none"}
        n == Len(chain)
    IN  /\ ((\A t \in Threads : threads[t].at = "done")
              /\ (\A t, u \in Threads : threads[t].read_at = threads[u].read_at))
             => /\ chain[n].previous_hash = chain[n - 1].previous_hash
                /\ chain[n].previous_hash # chain[n - 1].hash
                /\ ~is_chain_valid(chain)
        /\ (\A t, u \in called : t # u => threads[t].read_at # threads[u].read_at)
             => \A i \in 2..n : chain[i].previous_hash = chain[i - 1].hash

\* Both blocks appended after both reads had seen the genesis block as the
\* latest one.
C26_Witness ==
    /\ \A t \in Threads : threads[t].at = "done" /\ threads[t].read_at = 1
    /\ Len(chain) = 3
    /\ chain[2].index = chain[3].index

\* The five fields that calculate_hash reads.
FiveFields(b) == <<b.index, b.timestamp, b.data, b.previous_hash, b.nonce>>

\* C27: the text that calculate_hash hashes is different for blocks that
\* differ in index, timestamp, data, previous_hash or nonce: an edit of a
\* block, of one field or of several at once, changes that text, and a
\* block whose stored hash was the hash of its fields no longer has it.
C27_PreimageInjective ==
    [][\A i \in 1..Len(chain) :
          (Len(chain') = Len(chain) /\ FiveFields(chain'[i]) # FiveFields(chain[i]))
              => /\ block_string(chain'[i]) # block_string(chain[i])
                 /\ (chain[i].hash = calculate_hash(chain[i])
                        => chain'[i].hash # calculate_hash(chain'[i]))]_vars

\* C28: the data of chain[i] is changed and the block sealed again, so that
\* its stored hash is the hash of its fields.  For a block that is not the
\* last one is_chain_valid() returns False, because the new hash differs
\* from the old one and chain[i+1].previous_hash is not the new hash; for
\* the last block of a chain that was valid it returns True, and that is the
\* only case in which it does.
C28_ResealedBlockBreaksNextLink ==
    [][(frame = "reseal" /\ pc' = "idle") =>
          LET i == cand.index
              n == Len(chain)
          IN  /\ chain'[i + 1].data # chain[i + 1].data
              /\ chain'[i + 1].hash = calculate_hash(chain'[i + 1])
              /\ chain'[i + 1].hash # chain[i + 1].hash
              /\ (i < n - 1
                     => /\ chain'[i + 2].previous_hash # chain'[i + 1].hash
                        /\ ~is_chain_valid(chain'))
              /\ (i = n - 1 /\ is_chain_valid(chain) => is_chain_valid(chain'))
              /\ (is_chain_valid(chain') => i = n - 1)]_vars

\* The genesis block of a chain of three, edited and mined again.
C28_Witness ==
    /\ pc = "idle"
    /\ tampered = 0
    /\ Len(chain) = 3
    /\ Get(chain[1].data, "title", NoneV) = StrV("Z")
    /\ chain[1].hash = calculate_hash(chain[1])
    /\ LeadingZeros(chain[1].hash, difficulty)
    /\ ~is_chain_valid(chain)

\* C29: in every state of a session the on-chain counters add up to
\* len(chain) - 1, the off-chain counters add up to len(off_chain_list), and
\* patents_submitted is the sum of the two; a submission rejected for a
\* missing required field changes none of these, nor the two lists.
C29_CountersMatchLists ==
    /\ [](Len(chain) > 0 =>
            /\ SumOver(counts_on_chain, PatentTypes) = Len(chain) - 1
            /\ SumOver(counts_off_chain, PatentTypes) = Len(off_chain_list)
            /\ patents_submitted = SumOver(counts_on_chain, PatentTypes)
                                       + SumOver(counts_off_chain, PatentTypes))
    /\ [][(pc = "idle" /\ pc' = "idle"
             /\ ui' = "Please fill in all required fields marked with *")
            => UNCHANGED ledgerVars]_vars

\* A rejected submission that followed an on-chain and an off-chain one.
C29_Witness ==
    /\ pc = "idle"
    /\ ui = "Please fill in all required fields marked with *"
    /\ Len(chain) >= 2
    /\ Len(off_chain_list) >= 1
    /\ patents_submitted = Len(chain) - 1 + Len(off_chain_list)

(* ------------------------------------------------------------------ *)
(* The ledger without proof-of-work (src/python.py)                     *)
(* ------------------------------------------------------------------ *)

\* repr(v) of a value of a dict
ReprValue(val) ==
    CASE val.t = "str" -> "'" \o val.v \o "'"
      [] val.t = "int" -> str(val.v)
      [] val.t = "bool" -> (IF val.v THEN "True" ELSE "False")
      [] OTHER -> "None"

RECURSIVE ReprItems(_)
ReprItems(items) ==
    IF Len(items) = 0 THEN ""
    ELSE "'" \o items[1][1] \o "': " \o ReprValue(items[1][2])
         \o (IF Len(items) > 1 THEN ", " ELSE "")
         \o ReprItems(Tail(items))

\* str(dict): the items in insertion order
str_dict(dict) == "{" \o ReprItems(dict) \o "}"

\* Block.calculate_hash of python.py: the four fields, no nonce
naive_calculate_hash(b) ==
    sha256_hexdigest(str(b.index) \o b.timestamp \o str_dict(b.data) \o b.previous_hash)

\* Block(index, timestamp, data, previous_hash) of python.py
naive_Block(index, timestamp, data, previous_hash) ==
    LET fields == [index |-> index, timestamp |-> timestamp, data |-> data,
                   previous_hash |-> previous_hash]
    IN  [index |-> index, timestamp |-> timestamp, data |-> data,
         previous_hash |-> previous_hash, hash |-> naive_calculate_hash(fields)]

\* Blockchain.create_genesis_block of python.py
naive_create_genesis_block(now) ==
    naive_Block(0, str(now),
                << <<"title", StrV("Genesis Block")>>, <<"description", StrV("")>>,
                   <<"doc_hash", StrV("")>>, <<"patent_type", StrV("")>>,
                   <<"is_on_blockchain", BoolV(TRUE)>> >>,
                "0")

\* An add_block that leaves the hash the constructor computed.
naive_Recompute_skipped(new_block) == new_block

\* new_block.hash = new_block.calculate_hash()
naive_Recompute(new_block) == [new_block EXCEPT !.hash = naive_calculate_hash(new_block)]

\* Blockchain.add_block of python.py: relink, recompute the hash, append
naive_add_block(ch, new_block) ==
    Push(ch, naive_Recompute([new_block EXCEPT !.previous_hash = get_latest_block(ch).hash]))

\* The records handed to the ledger: the dict the submit handler builds, and
\* a dict of a caller that has one key only.
NaiveRecords ==
    { << <<"title", StrV("X")>>, <<"description", StrV("Valve")>>,
         <<"doc_hash", StrV("")>>, <<"patent_type", StrV("Mechanical")>>,
         <<"is_on_blockchain", BoolV(TRUE)>> >>,
      << <<"title", StrV("")>> >> }

\* The index and previous_hash a caller gives the Block it hands over: the
\* handler's (len(chain) and ""), or other ones.
NaiveIndexes(ch) == {Len(ch), 0}
NaiveLinks(ch) == {"", ch[1].hash}

\* Blockchain() of python.py: the chain holds the genesis block
naive_Blockchain_init ==
    /\ pc = "start"
    /\ chain' = <<naive_create_genesis_block(clock)>>
    /\ pc' = "idle"
    /\ UNCHANGED <<frame, difficulty, cand, target_len, clock, off_chain_list,
                   counts_on_chain, counts_off_chain, patents_submitted, ui,
                   tampered, verification, view, threads>>

\* toy_chain.add_block(Block(index, timestamp, data, previous_hash))
call_naive_add_block ==
    /\ pc = "idle"
    /\ Len(chain) < MaxChain
    /\ \E data \in NaiveRecords, dt \in Delays, index \in NaiveIndexes(chain) :
        \E timestamp \in EngineTimestamps(clock + dt), previous_hash \in NaiveLinks(chain) :
            /\ chain' = naive_add_block(chain, naive_Block(index, timestamp, data, previous_hash))
            /\ clock' = clock + dt
    /\ UNCHANGED <<pc, frame, difficulty, cand, target_len, off_chain_list,
                   counts_on_chain, counts_off_chain, patents_submitted, ui,
                   tampered, verification, view, threads>>

NaiveNext == naive_Blockchain_init \/ call_naive_add_block

NaiveSpec == Init /\ [][NaiveNext]_vars

\* C30: in the ledger without proof-of-work, after construction and any
\* sequence of add_block calls, every block i > 0 has previous_hash equal to
\* the stored hash of block i-1 and a stored hash equal to the hash of its
\* current fields, and the genesis block has index 0 and previous_hash "0".
C30_NaiveChainLinkedAndSealed ==
    pc = "idle" =>
        /\ Len(chain) >= 1
        /\ chain[1].index = 0
        /\ chain[1].previous_hash = "0"
        /\ \A i \in 2..Len(chain) :
            /\ chain[i].previous_hash = chain[i - 1].hash
            /\ chain[i].hash = naive_calculate_hash(chain[i])

\* Two add_block calls, the first with a Block built with index 0, whose
\* stored hash is not the one its constructor computes with previous_hash "".
C30_Witness ==
    /\ pc = "idle"
    /\ Len(chain) >= 3
    /\ chain[2].index = 0
    /\ chain[2].hash # naive_Block(0, chain[2].timestamp, chain[2].data, "").hash
    /\ chain[3].previous_hash = chain[2].hash

\* C31: the authenticity score is never below 45, so the lower clamp at 0
\* never acts; the score differs from the sum 50 + bonuses + r only when the
\* sum exceeds 100, and is 100 then; two calls on the same record return
\* scores that differ by at most 20.
C31_ScoreFloorAndSpread ==
    verification.called =>
        LET bonus == (IF Len(Get(verification.patent_data, "title", StrV("")).v) > 10
                      THEN 10 ELSE 0)
                     + (IF Len(Get(verification.patent_data, "description", StrV("")).v) > 50
                        THEN 15 ELSE 0)
                     + (IF Len(Get(verification.patent_data, "doc_hash", StrV("")).v) > 0
                        THEN 20 ELSE 0)
            total == 50 + bonus + verification.r
        IN  /\ verification.score >= 45
            /\ total >= 45
            /\ (verification.score # total => total > 100 /\ verification.score = 100)
            /\ ("earlier" \in DOMAIN verification =>
                   /\ verification.score - verification.earlier <= 20
                   /\ verification.earlier - verification.score <= 20)

\* A record without bonuses scored 45 and then, called again, 65.
C31_Witness ==
    /\ verification.called
    /\ "earlier" \in DOMAIN verification
    /\ verification.earlier = 45
    /\ verification.score = 65

====
